---------------------------- MODULE Spec2Model ----------------------------
(***************************************************************************)
(* A model of the rust-jwt crate: the Claims map (src/src/claims.rs), the  *)
(* JWS compact-serialization codec with its HS256 binding                  *)
(* (src/src/jws.rs) and the constant-time comparator (src/src/lib.rs).     *)
(*                                                                         *)
(* Text is a sequence of byte values (ASCII codes); a byte is 0..255.      *)
(* The crate's collaborators are modelled by what they do:                 *)
(*   - rustc_serialize::base64 (to_base64 with URL_SAFE: url alphabet, no  *)
(*     padding, no line breaks; from_base64: accepts both alphabets,       *)
(*     skips CR and LF, stops at '=', ignores the unused low bits of a     *)
(*     trailing partial group);                                            *)
(*   - rustc_serialize::json (Json with distinct I64 / U64 variants,       *)
(*     compact printer, parser that yields U64 for every non-negative      *)
(*     integer literal);                                                   *)
(*   - openssl HMAC-SHA256 as an ideal MAC: a deterministic 32-byte tag    *)
(*     that depends on the key only through its zero-padded key block and  *)
(*     is collision-free on the inputs the model explores.                 *)
(***************************************************************************)
EXTENDS Integers, Sequences, FiniteSets, TLC

\* ------------------------------------------------------------------------
\* Bytes and bits
\* ------------------------------------------------------------------------

Pow2(i) == CASE i = 0 -> 1 [] i = 1 -> 2 [] i = 2 -> 4 [] i = 3 -> 8
             [] i = 4 -> 16 [] i = 5 -> 32 [] i = 6 -> 64 [] i = 7 -> 128

Bit(x, i) == (x \div Pow2(i)) % 2

\* a ^ b on u8
Xor8(a, b) ==
    LET d(i) == IF Bit(a, i) # Bit(b, i) THEN Pow2(i) ELSE 0
    IN  d(0) + d(1) + d(2) + d(3) + d(4) + d(5) + d(6) + d(7)

\* a | b on u8
Or8(a, b) ==
    LET d(i) == IF Bit(a, i) = 1 \/ Bit(b, i) = 1 THEN Pow2(i) ELSE 0
    IN  d(0) + d(1) + d(2) + d(3) + d(4) + d(5) + d(6) + d(7)

\* ------------------------------------------------------------------------
\* util::safe_cmp  (src/src/lib.rs:35-42)
\* ------------------------------------------------------------------------

\* The value of r after `for i in (0..a.len()) { r |= a[i] ^ b[i]; }` has
\* run over the first n indices from r = 0: bit k of r is set exactly when
\* bit k of a[i] ^ b[i] is set for one of them (an index where the bytes
\* agree adds a[i] ^ b[i] = 0, that is nothing).
CmpFold(a, b, n) ==
    LET differ == {i \in 1..n : a[i] # b[i]}
        d(k) == IF \E i \in differ : Bit(a[i], k) # Bit(b[i], k)
                THEN Pow2(k) ELSE 0
    IN  d(0) + d(1) + d(2) + d(3) + d(4) + d(5) + d(6) + d(7)

safe_cmp(a, b) ==
    IF Len(a) # Len(b) THEN FALSE
    ELSE CmpFold(a, b, Len(a)) = 0

\* ------------------------------------------------------------------------
\* base64  (rustc_serialize::base64, used at src/src/jws.rs:19-20,65,70 and
\* src/src/claims.rs:111)
\* ------------------------------------------------------------------------

\* The URL-safe alphabet: A-Z a-z 0-9 - _
UrlSafeChar(v) ==
    CASE v < 26 -> 65 + v
      [] v >= 26 /\ v < 52 -> 97 + (v - 26)
      [] v >= 52 /\ v < 62 -> 48 + (v - 52)
      [] v = 62 -> 45
      [] v = 63 -> 95

\* bytes.to_base64(URL_SAFE): no padding, no line breaks.
ToBase64(bytes) ==
    LET n == Len(bytes)
        rem == n % 3
        m == 4 * (n \div 3) + (IF rem = 0 THEN 0 ELSE rem + 1)
        byteAt(j) == IF j <= n THEN bytes[j] ELSE 0
        group(q) == byteAt(3 * q + 1) * 65536 + byteAt(3 * q + 2) * 256
                    + byteAt(3 * q + 3)
        sextet(k) ==
            LET q == (k - 1) \div 4
                r == (k - 1) % 4
                d == CASE r = 0 -> 262144 [] r = 1 -> 4096 [] r = 2 -> 64
                       [] r = 3 -> 1
            IN  (group(q) \div d) % 64
    IN  [k \in 1..m |-> UrlSafeChar(sextet(k))] \o <<>>

IsNewline(c) == c = 13 \/ c = 10

IsB64Digit(c) ==
    \/ c >= 65 /\ c <= 90
    \/ c >= 97 /\ c <= 122
    \/ c >= 48 /\ c <= 57
    \/ c \in {43, 45, 47, 95}

\* The decoder's table: both the standard and the URL-safe alphabet.
B64Value(c) ==
    CASE c >= 65 /\ c <= 90 -> c - 65
      [] c >= 97 /\ c <= 122 -> c - 71
      [] c >= 48 /\ c <= 57 -> c + 4
      [] c = 43 \/ c = 45 -> 62
      [] c = 47 \/ c = 95 -> 63

Err == [ok |-> FALSE]
Ok(v) == [ok |-> TRUE, v |-> v]

\* The number the q-th group of four digits spells, six bits a digit (a
\* digit missing from the last group counts as 0).
GroupValue(digits, q) ==
    LET valAt(k) == IF k <= Len(digits) THEN B64Value(digits[k]) ELSE 0
    IN  valAt(4 * q + 1) * 262144 + valAt(4 * q + 2) * 4096
        + valAt(4 * q + 3) * 64 + valAt(4 * q + 4)

\* The bytes of groups of 24 bits, cut to len bytes.
GroupBytes(groups, len) ==
    [j \in 1..len |->
        LET g == groups[((j - 1) \div 3) + 1]
            r == (j - 1) % 3
        IN  CASE r = 0 -> g \div 65536
              [] r = 1 -> (g \div 256) % 256
              [] r = 2 -> g % 256] \o <<>>

\* The bytes that a run of base64 digits stands for: three for each four
\* digits, then one for two more digits or two for three more, whose unused
\* low bits are dropped (the caller has excluded a lone last digit).
DecodeDigits(digits) ==
    LET m == Len(digits)
        modulus == m % 4
    IN  GroupBytes([q \in 1..((m + 3) \div 4) |->
                       GroupValue(digits, q - 1)] \o <<>>,
                   3 * (m \div 4) + (IF modulus = 0 THEN 0 ELSE modulus - 1))

\* The index at which the decoder's first loop ends: the first '=', or one
\* past the end.
FirstEquals(text) ==
    LET eqs == {i \in 1..Len(text) : text[i] = 61}
    IN  IF eqs = {} THEN Len(text) + 1
        ELSE CHOOSE i \in eqs : \A j \in eqs : i <= j

\* from_base64 on text whose first loop ends at index stop
FromBase64At(text, stop) ==
    LET badHead == \E i \in 1..(stop - 1) :
                       ~IsB64Digit(text[i]) /\ ~IsNewline(text[i])
        \* after the first '=' only '=', CR and LF may follow
        badTail == \E i \in (stop + 1)..Len(text) :
                       text[i] # 61 /\ ~IsNewline(text[i])
        \* CR and LF are skipped
        digits == SelectSeq(SubSeq(text, 1, stop - 1), IsB64Digit)
    IN  IF badHead \/ badTail \/ Len(digits) % 4 = 1 THEN Err
        ELSE Ok(DecodeDigits(digits))

\* text.from_base64(): Ok(bytes) or an error (FromBase64Error).
FromBase64(text) == FromBase64At(text, FirstEquals(text))

\* ------------------------------------------------------------------------
\* str::from_utf8  (used at src/src/jws.rs:71)
\* ------------------------------------------------------------------------

IsCont(b) == b >= 128 /\ b <= 191

\* Whether bytes[i..] is well-formed UTF-8.
RECURSIVE Utf8From(_, _)
Utf8From(bytes, i) ==
    LET n == Len(bytes)
        b == bytes[i]
        at(k) == IF k <= n THEN bytes[k] ELSE 0
        c1 == at(i + 1)
        two == IsCont(c1)
        three == /\ IsCont(at(i + 2))
                 /\ \/ b = 224 /\ c1 >= 160 /\ c1 <= 191
                    \/ b = 237 /\ c1 >= 128 /\ c1 <= 159
                    \/ b \notin {224, 237} /\ IsCont(c1)
        four == /\ IsCont(at(i + 2)) /\ IsCont(at(i + 3))
                /\ \/ b = 240 /\ c1 >= 144 /\ c1 <= 191
                   \/ b = 244 /\ c1 >= 128 /\ c1 <= 143
                   \/ b \in 241..243 /\ IsCont(c1)
    IN  IF i > n THEN TRUE
        ELSE IF b < 128 THEN Utf8From(bytes, i + 1)
        ELSE IF b >= 194 /\ b <= 223 THEN two /\ Utf8From(bytes, i + 2)
        ELSE IF b >= 224 /\ b <= 239 THEN three /\ Utf8From(bytes, i + 3)
        ELSE IF b >= 240 /\ b <= 244 THEN four /\ Utf8From(bytes, i + 4)
        ELSE FALSE

\* str::from_utf8(bytes).is_some()
IsUtf8(bytes) == Utf8From(bytes, 1)

\* ------------------------------------------------------------------------
\* json::Json  (rustc_serialize::json, used at src/src/claims.rs:13,85,
\* 104-112 and src/src/jws.rs:72-73)
\*
\* A Json value is a pair <<variant, payload>>; equality of pairs is the
\* derived PartialEq of the enum, which tells I64(5) from U64(5).
\* ------------------------------------------------------------------------

JNull == <<"Null", 0>>
JBool(b) == <<"Boolean", b>>
JI64(n) == <<"I64", n>>
JU64(n) == <<"U64", n>>
\* m * 10^e with m not a multiple of 10 (or m = 0 and e = 0)
JF64(m, e) == <<"F64", <<m, e>>>>
JStr(s) == <<"String", s>>
JArr(a) == <<"Array", a>>
\* a BTreeMap<String, Json>: a function from its keys to their values
JObj(f) == <<"Object", f>>

\* Json::as_string, Json::as_array, Json::as_object
IsString(j) == j[1] = "String"
IsArray(j) == j[1] = "Array"
IsObject(j) == j[1] = "Object"

\* The order of String keys in a BTreeMap: lexicographic on bytes.
LexLess(a, b) ==
    \/ Len(a) < Len(b) /\ \A k \in 1..Len(a) : a[k] = b[k]
    \/ \E k \in 1..Len(a) :
          /\ k <= Len(b)
          /\ a[k] < b[k]
          /\ \A j \in 1..(k - 1) : a[j] = b[j]

RECURSIVE SortedKeys(_)
SortedKeys(ks) ==
    IF ks = {} THEN <<>>
    ELSE LET k == CHOOSE x \in ks : \A y \in ks \ {x} : LexLess(x, y)
         IN  <<k>> \o SortedKeys(ks \ {k})

\* ---- the compact printer (Json::to_string) ----

RECURSIVE Decimal(_)
Decimal(n) ==
    IF n < 10 THEN <<48 + n>> ELSE Append(Decimal(n \div 10), 48 + (n % 10))

EscapeChar(c) ==
    CASE c = 34 -> <<92, 34>>
      [] c = 92 -> <<92, 92>>
      [] c = 8 -> <<92, 98>>
      [] c = 12 -> <<92, 102>>
      [] c = 10 -> <<92, 110>>
      [] c = 13 -> <<92, 114>>
      [] c = 9 -> <<92, 116>>
      [] OTHER -> <<c>>

RECURSIVE EscapeFrom(_, _)
EscapeFrom(s, i) ==
    IF i > Len(s) THEN <<>> ELSE EscapeChar(s[i]) \o EscapeFrom(s, i + 1)

\* escape_str: the string in double quotes
QuoteStr(s) == <<34>> \o EscapeFrom(s, 1) \o <<34>>

RECURSIVE JsonText(_), ArrayText(_, _), ObjectText(_, _, _)
\* Json::to_string(): compact text (F64 values are not printed in this
\* model: no claim set that is encoded holds one)
JsonText(j) ==
    CASE j[1] = "Null" -> <<110, 117, 108, 108>>
      [] j[1] = "Boolean" -> IF j[2] THEN <<116, 114, 117, 101>>
                             ELSE <<102, 97, 108, 115, 101>>
      [] j[1] = "I64" -> IF j[2] < 0 THEN <<45>> \o Decimal(-j[2])
                         ELSE Decimal(j[2])
      [] j[1] = "U64" -> Decimal(j[2])
      [] j[1] = "String" -> QuoteStr(j[2])
      [] j[1] = "Array" -> <<91>> \o ArrayText(j[2], 1) \o <<93>>
      [] j[1] = "Object" ->
            <<123>> \o ObjectText(j[2], SortedKeys(DOMAIN j[2]), 1) \o <<125>>

ArrayText(a, i) ==
    IF i > Len(a) THEN <<>>
    ELSE (IF i > 1 THEN <<44>> ELSE <<>>) \o JsonText(a[i])
         \o ArrayText(a, i + 1)

ObjectText(f, ks, i) ==
    IF i > Len(ks) THEN <<>>
    ELSE (IF i > 1 THEN <<44>> ELSE <<>>) \o QuoteStr(ks[i]) \o <<58>>
         \o JsonText(f[ks[i]]) \o ObjectText(f, ks, i + 1)

\* ---- the parser (json::from_str) ----
\* A parse step yields [ok, v, i]: whether it succeeded, the value, and the
\* index of the first byte it did not consume.

PFail == [ok |-> FALSE, v |-> 0, i |-> 0]
POk(v, i) == [ok |-> TRUE, v |-> v, i |-> i]

IsWs(c) == c \in {32, 10, 9, 13}
IsDigit(c) == c >= 48 /\ c <= 57

\* s[i], or 0 past the end (ch_or_null)
ChAt(s, i) == IF i <= Len(s) THEN s[i] ELSE 0

RECURSIVE SkipWs(_, _)
\* parse_whitespace
SkipWs(s, i) == IF IsWs(ChAt(s, i)) THEN SkipWs(s, i + 1) ELSE i

RECURSIVE DigitRun(_, _, _, _)
\* the digits from s[i] on, accumulated into acc: [v, i, n] with n the count
DigitRun(s, i, acc, n) ==
    IF IsDigit(ChAt(s, i))
    THEN DigitRun(s, i + 1, acc * 10 + (s[i] - 48), n + 1)
    ELSE [v |-> acc, i |-> i, n |-> n]

RECURSIVE NormF64(_, _)
NormF64(m, e) ==
    IF m = 0 THEN JF64(0, 0)
    ELSE IF m % 10 = 0 THEN NormF64(m \div 10, e + 1)
    ELSE JF64(m, e)

\* parse_number, s[i] being '-' or a digit
ParseNumber(s, i) ==
    LET neg == ChAt(s, i) = 45
        i1 == IF neg THEN i + 1 ELSE i
        \* parse_u64: a lone '0', or a run of digits that starts with 1-9
        int == IF ChAt(s, i1) = 48 THEN [v |-> 0, i |-> i1 + 1, n |-> 1]
               ELSE DigitRun(s, i1, 0, 0)
        badInt == \/ int.n = 0
                  \/ ChAt(s, i1) = 48 /\ IsDigit(ChAt(s, i1 + 1))
        hasDot == ChAt(s, int.i) = 46
        \* parse_decimal: '.' and at least one digit
        frac == IF hasDot THEN DigitRun(s, int.i + 1, int.v, 0)
                ELSE [v |-> int.v, i |-> int.i, n |-> 0]
        badFrac == hasDot /\ frac.n = 0
        hasExp == ChAt(s, frac.i) \in {101, 69}
        \* parse_exponent: 'e' or 'E', an optional sign, at least one digit
        eneg == ChAt(s, frac.i + 1) = 45
        esgn == ChAt(s, frac.i + 1) \in {43, 45}
        exp == IF hasExp
               THEN DigitRun(s, frac.i + (IF esgn THEN 2 ELSE 1), 0, 0)
               ELSE [v |-> 0, i |-> frac.i, n |-> 1]
        badExp == hasExp /\ exp.n = 0
        sign == IF neg THEN -1 ELSE 1
    IN  IF badInt \/ badFrac \/ badExp THEN PFail
        ELSE IF hasDot \/ hasExp
        THEN POk(NormF64(sign * frac.v,
                         (IF eneg THEN -exp.v ELSE exp.v) - frac.n), exp.i)
        ELSE IF neg THEN POk(JI64(-int.v), int.i)
        ELSE POk(JU64(int.v), int.i)

\* the character an escape stands for, or -1 for one that is no escape
\* (\u escapes are outside the texts of this model)
Unescape(c) ==
    CASE c = 34 -> 34 [] c = 92 -> 92 [] c = 47 -> 47 [] c = 98 -> 8
      [] c = 102 -> 12 [] c = 110 -> 10 [] c = 114 -> 13 [] c = 116 -> 9
      [] OTHER -> -1

RECURSIVE StrRun(_, _, _)
\* parse_str after the opening quote: [ok, v, i] with v the bytes read
StrRun(s, i, acc) ==
    IF i > Len(s) THEN PFail
    ELSE IF s[i] = 34 THEN POk(acc, i + 1)
    ELSE IF s[i] = 92
    THEN IF Unescape(ChAt(s, i + 1)) < 0 THEN PFail
         ELSE StrRun(s, i + 2, Append(acc, Unescape(s[i + 1])))
    ELSE StrRun(s, i + 1, Append(acc, s[i]))

\* parse_ident: the literal lit at s[i..]
ParseIdent(s, i, lit, v) ==
    IF /\ i + Len(lit) - 1 <= Len(s)
       /\ \A k \in 1..Len(lit) : s[i + k - 1] = lit[k]
    THEN POk(v, i + Len(lit))
    ELSE PFail

\* insert into a BTreeMap: the last value of a repeated key stays
MapInsert(f, k, v) ==
    [x \in DOMAIN f \cup {k} |-> IF x = k THEN v ELSE f[x]]

EmptyMap == [x \in {} |-> 0]

RECURSIVE ParseValue(_, _), ParseArray(_, _, _, _), ParseObject(_, _, _, _)
\* parse_value at s[i] (whitespace already skipped)
ParseValue(s, i) ==
    LET c == ChAt(s, i)
    IN  IF i > Len(s) THEN PFail
        ELSE IF c = 110 THEN ParseIdent(s, i, <<110, 117, 108, 108>>, JNull)
        ELSE IF c = 116
        THEN ParseIdent(s, i, <<116, 114, 117, 101>>, JBool(TRUE))
        ELSE IF c = 102
        THEN ParseIdent(s, i, <<102, 97, 108, 115, 101>>, JBool(FALSE))
        ELSE IF IsDigit(c) \/ c = 45 THEN ParseNumber(s, i)
        ELSE IF c = 34
        THEN LET r == StrRun(s, i + 1, <<>>)
             IN  IF r.ok THEN POk(JStr(r.v), r.i) ELSE PFail
        ELSE IF c = 91 THEN ParseArray(s, i + 1, <<>>, TRUE)
        ELSE IF c = 123 THEN ParseObject(s, i + 1, EmptyMap, TRUE)
        ELSE PFail

\* parse_array / parse_array_comma_or_end: the elements so far are acc
ParseArray(s, i, acc, first) ==
    LET j == SkipWs(s, i)
    IN  IF ChAt(s, j) = 93
        THEN IF first THEN POk(JArr(acc), j + 1) ELSE PFail
        ELSE LET e == ParseValue(s, j)
                 k == SkipWs(s, e.i)
             IN  IF ~e.ok THEN PFail
                 ELSE IF ChAt(s, k) = 44
                 THEN ParseArray(s, k + 1, Append(acc, e.v), FALSE)
                 ELSE IF ChAt(s, k) = 93
                 THEN POk(JArr(Append(acc, e.v)), k + 1)
                 ELSE PFail

\* parse_object / parse_object_end: the entries so far are acc
ParseObject(s, i, acc, first) ==
    LET j == SkipWs(s, i)
    IN  IF ChAt(s, j) = 125
        THEN IF first THEN POk(JObj(acc), j + 1) ELSE PFail
        ELSE IF ChAt(s, j) # 34 THEN PFail
        ELSE LET key == StrRun(s, j + 1, <<>>)
                 c == SkipWs(s, key.i)
                 e == ParseValue(s, SkipWs(s, c + 1))
                 k == SkipWs(s, e.i)
             IN  IF ~key.ok THEN PFail
                 ELSE IF ChAt(s, c) # 58 THEN PFail
                 ELSE IF ~e.ok THEN PFail
                 ELSE IF ChAt(s, k) = 44
                 THEN ParseObject(s, k + 1, MapInsert(acc, key.v, e.v), FALSE)
                 ELSE IF ChAt(s, k) = 125
                 THEN POk(JObj(MapInsert(acc, key.v, e.v)), k + 1)
                 ELSE PFail

\* json::from_str(text): Ok(Json), or an error when the text is no JSON
\* value or is followed by anything but whitespace
JsonFromStr(s) ==
    LET r == ParseValue(s, SkipWs(s, 1))
    IN  IF r.ok /\ SkipWs(s, r.i) > Len(s) THEN Ok(r.v) ELSE Err

\* ------------------------------------------------------------------------
\* Claims  (src/src/claims.rs)
\* ------------------------------------------------------------------------

None == <<"None", 0>>
Some(v) == <<"Some", v>>

\* value.to_json() for the Rust values a caller hands to insert_unsafe; a
\* value is a pair <<type, payload>> (ToJson of rustc_serialize::json)
RECURSIVE ToJson(_)
ToJson(x) ==
    CASE x[1] = "String" -> JStr(x[2])
      [] x[1] = "i64" -> JI64(x[2])
      [] x[1] = "u64" -> JU64(x[2])
      [] x[1] = "bool" -> JBool(x[2])
      [] x[1] = "Vec" -> JArr([i \in 1..Len(x[2]) |-> ToJson(x[2][i])] \o <<>>)
      [] x[1] = "Json" -> x[2]

\* Claims::new
New == EmptyMap

\* Claims::get
Get(raw, key) == IF key \in DOMAIN raw THEN Some(raw[key]) ELSE None

\* insert_unsafe that leaves the value of a key it finds in place
InsertKeepFirst(raw, key, value) ==
    IF key \in DOMAIN raw THEN raw ELSE MapInsert(raw, key, ToJson(value))

\* Claims::insert_unsafe: the raw map afterwards
InsertUnsafe(raw, key, value) == MapInsert(raw, key, ToJson(value))

\* Claims::remove: the raw map afterwards (the call returns Get(raw, key))
Remove(raw, key) == [x \in DOMAIN raw \ {key} |-> raw[x]]

KeyAud == <<97, 117, 100>>
KeySub == <<115, 117, 98>>
KeyExp == <<101, 120, 112>>

\* Claims::sub
Sub(raw) ==
    IF KeySub \in DOMAIN raw /\ IsString(raw[KeySub])
    THEN Some(raw[KeySub][2]) ELSE None

\* aud that drops the members that are no strings
AudPartial(raw) ==
    IF KeyAud \notin DOMAIN raw THEN None
    ELSE IF ~IsArray(raw[KeyAud]) THEN None
    ELSE LET strings == SelectSeq(raw[KeyAud][2], IsString)
         IN  Some([i \in 1..Len(strings) |-> strings[i][2]] \o <<>>)

\* aud that hands out a lone string as a list of one
AudStringAsList(raw) ==
    IF KeyAud \notin DOMAIN raw THEN None
    ELSE IF IsString(raw[KeyAud]) THEN Some(<<raw[KeyAud][2]>>)
    ELSE IF ~IsArray(raw[KeyAud]) THEN None
    ELSE LET members == raw[KeyAud][2]
         IN  IF \E i \in 1..Len(members) : ~IsString(members[i]) THEN None
             ELSE Some([i \in 1..Len(members) |-> members[i][2]] \o <<>>)

\* Claims::aud
Aud(raw) ==
    IF KeyAud \notin DOMAIN raw THEN None
    ELSE IF ~IsArray(raw[KeyAud]) THEN None
    ELSE LET members == raw[KeyAud][2]
         IN  IF \E i \in 1..Len(members) : ~IsString(members[i]) THEN None
             ELSE Some([i \in 1..Len(members) |-> members[i][2]] \o <<>>)

\* impl ToJson for Claims
ClaimsToJson(raw) == JObj(raw)

\* impl ToBase64 for Claims
ClaimsToBase64(raw) == ToBase64(JsonText(ClaimsToJson(raw)))

\* ------------------------------------------------------------------------
\* HMAC-SHA256  (openssl::crypto::hmac, used at src/src/jws.rs:91-93 and
\* 100-104), as an ideal MAC
\* ------------------------------------------------------------------------

\* The digest size of SHA-256, in bytes
TagLen == 32

\* The block size of SHA-256, in bytes
BlockSize == 64

\* HMAC zero-pads a key shorter than the hash block to the block size, so a
\* key and the same key followed by zero bytes give one key block.  (A key
\* longer than the block is hashed first; the keys of this model are
\* shorter.)
KeyBlock(key) == key \o [i \in 1..(BlockSize - Len(key)) |-> 0]

RECURSIVE MsgSum(_, _, _, _)
\* a checksum of msg[lo..hi]: the k-weighted sum of its bytes modulo 251
MsgSum(msg, lo, hi, k) ==
    IF lo > hi THEN 0
    ELSE IF lo = hi THEN ((1 + ((k * lo) % 250)) * msg[lo]) % 251
    ELSE LET mid == (lo + hi) \div 2
         IN  (MsgSum(msg, lo, mid, k) + MsgSum(msg, mid + 1, hi, k)) % 251

\* The tag for a key block and a message checksum: bytes 1-3 carry the
\* first bytes of the key block (the keys of this model differ there or not
\* at all), byte 4 the checksum, the others mix the two.
Tag(block, sum) ==
    [i \in 1..TagLen |->
        CASE i = 1 -> block[1]
          [] i = 2 -> block[2]
          [] i = 3 -> block[3]
          [] i = 4 -> sum
          [] OTHER -> (block[1] + 3 * block[2] + 5 * block[3]
                       + (2 * i + 1) * sum + 11 * i) % 256] \o <<>>

\* a digest of the message alone, where the key is not used
DigestUnkeyed(key, msg) ==
    Tag(KeyBlock(<<>>), MsgSum(msg, 1, Len(msg), 1))

\* HMAC(SHA256, key).update(msg).finalize(): 32 bytes fixed by the key block
\* and the message; a change of one byte of msg changes the checksum.
HmacSha256(key, msg) ==
    Tag(KeyBlock(key), MsgSum(msg, 1, Len(msg), 1))

\* ------------------------------------------------------------------------
\* The codec  (src/src/jws.rs)
\* ------------------------------------------------------------------------

Dot == 46

Malformed == <<"Err", "Malformed">>
InvalidSignature == <<"Err", "InvalidSignature">>
\* Ok(Claims { raw })
OkClaims(raw) == <<"Ok", raw>>

\* the index of the first sep in s at or after i, or Len(s) + 1
FindSep(s, sep, i) ==
    LET at == {j \in i..Len(s) : s[j] = sep}
    IN  IF at = {} THEN Len(s) + 1
        ELSE CHOOSE j \in at : \A k \in at : j <= k

RECURSIVE SplitFrom(_, _, _, _)
\* the pieces of s[i..] between occurrences of sep, the last piece being the
\* whole rest once `splits` separators have been used
SplitFrom(s, sep, i, splits) ==
    LET j == FindSep(s, sep, i)
    IN  IF splits = 0 \/ j > Len(s) THEN <<SubSeq(s, i, Len(s))>>
        ELSE <<SubSeq(s, i, j - 1)>> \o SplitFrom(s, sep, j + 1, splits - 1)

\* What the build's str::splitn(n, sep) means: "items" returns at most n
\* items (Rust 1.0 and later), "splits" splits at most n times (the
\* toolchains before it).
SplitnModes == {"items", "splits"}

\* s.split(sep).take(n): the pieces after the n-th are dropped
SplitTake(s, n, sep, mode) ==
    LET all == SplitFrom(s, sep, 1, Len(s))
    IN  SubSeq(all, 1, IF Len(all) < n THEN Len(all) ELSE n)

\* s.splitn(n, sep).collect()
SplitN(s, n, sep, mode) ==
    SplitFrom(s, sep, 1, IF mode = "items" THEN n - 1 ELSE n)

\* the closure hs256::encode signs with
EncodeSign(key, input) == HmacSha256(key, input)

\* the closure hs256::decode verifies with
DecodeSign(key, header64, payload64) ==
    HmacSha256(key, header64 \o <<Dot>> \o payload64)

\* encode_generic; the closure sign is given as the key it captures
encode_generic(claims, header, sign) ==
    LET res == header \o <<Dot>> \o ClaimsToBase64(claims)
        sig == ToBase64(EncodeSign(sign, res))
    IN  res \o <<Dot>> \o sig

\* the payload taken as claims without asking whether it is an object
PayloadAnyJson(payload) ==
    IF ~payload.ok THEN Malformed
    ELSE OkClaims(payload.v[2])

\* decode_generic, lines 72-73: the payload text as claims
PayloadClaims(payload) ==
    IF ~payload.ok THEN Malformed
    ELSE IF ~IsObject(payload.v) THEN Malformed
    ELSE OkClaims(payload.v[2])

\* decode_generic, lines 71-74: the payload bytes as claims
PayloadText(payload_bytes) ==
    IF ~payload_bytes.ok THEN Malformed
    ELSE IF ~IsUtf8(payload_bytes.v) THEN Malformed
    ELSE PayloadClaims(JsonFromStr(payload_bytes.v))

\* decode_generic, lines 70-74: the payload, once the signature is accepted
DecodePayload(payload64) == PayloadText(FromBase64(payload64))

\* the payload read before the signature is compared
DecodePayloadFirst(sig_bytes, computed_sig, payload64) ==
    IF ~sig_bytes.ok THEN Malformed
    ELSE IF DecodePayload(payload64) = Malformed THEN Malformed
    ELSE IF ~safe_cmp(sig_bytes.v, computed_sig) THEN InvalidSignature
    ELSE DecodePayload(payload64)

\* decode_generic, lines 65-74: the parts being three
DecodeSigned(sig_bytes, computed_sig, payload64) ==
    IF ~sig_bytes.ok THEN Malformed
    ELSE IF ~safe_cmp(sig_bytes.v, computed_sig) THEN InvalidSignature
    ELSE DecodePayload(payload64)

\* decode_generic, lines 62-74
DecodeParts(parts, sign) ==
    IF Len(parts) # 3 THEN Malformed
    ELSE DecodeSigned(FromBase64(parts[3]),
                      DecodeSign(sign, parts[1], parts[2]), parts[2])

\* decode_generic; the closure sign is given as the key it captures
decode_generic(input, sign, mode) ==
    DecodeParts(SplitN(input, 3, Dot, mode), sign)

\* hs256::HEADER: base64url of {"alg":"HS256","typ":"JWT"}
HEADER ==
    <<101, 121, 74, 104, 98, 71, 99, 105, 79, 105, 74, 73, 85, 122, 73, 49,
      78, 105, 73, 115, 73, 110, 82, 53, 99, 67, 73, 54, 73, 107, 112, 88,
      86, 67, 74, 57>>

\* hs256::encode
hs256_encode(claims, key) ==
    encode_generic(claims, HEADER, key)

\* hs256::decode
hs256_decode(input, key, mode) ==
    decode_generic(input, key, mode)

\* ------------------------------------------------------------------------
\* State
\* ------------------------------------------------------------------------

VARIABLES
    raw,        \* Claims.raw of the claim set being built
    hist,       \* the Claims calls made so far, oldest first
    ret,        \* what the last Claims call returned
    phase,      \* "build", "ready" (an input is at hand), "decoded"
    token,      \* what hs256::encode returned (<<>> before)
    encKey,     \* the key it was called with
    tamper,     \* <<position, bit>> of the bit flipped in the token, or None
    input,      \* the text handed to hs256::decode
    decKey,     \* the key handed to hs256::decode
    result,     \* what hs256::decode returned, or None
    ca, cb,     \* the arguments of a safe_cmp call
    cpc,        \* where that call is: "idle", "len", "loop", "done"
    ci,         \* its loop index
    cr,         \* its accumulator r
    cseen,      \* the indices its loop body has run for, in order
    cret        \* what it returned, or None

claimVars == <<raw, hist, ret>>
tokenVars == <<phase, token, encKey, tamper, input, decKey, result>>
cmpVars == <<ca, cb, cpc, ci, cr, cseen, cret>>
vars == <<raw, hist, ret, phase, token, encKey, tamper, input, decKey,
          result, ca, cb, cpc, ci, cr, cseen, cret>>

\* ------------------------------------------------------------------------
\* Bounds and input domains
\* ------------------------------------------------------------------------

MaxOps == 3         \* Claims calls in one run
MaxCmpLen == 2      \* bytes of a safe_cmp argument
MaxExtra == 1       \* segments beyond the third of a hand-made input

RECURSIVE SeqsUpTo(_, _)
\* the sequences over S of length at most n
SeqsUpTo(S, n) ==
    IF n = 0 THEN {<<>>}
    ELSE LET shorter == SeqsUpTo(S, n - 1)
         IN  shorter \cup {Append(q, x) : q \in shorter, x \in S}

\* the keys in use: "s", "s" followed by a NUL byte, and "t"
Keys == {<<115>>, <<115, 0>>, <<116>>}

StrA == <<"String", <<97>>>>
StrB == <<"String", <<98>>>>

\* what the callers of this model hand to insert_unsafe
ClaimValues ==
    { StrA,
      <<"i64", 5>>,
      <<"Vec", <<StrA, StrB>>>>,
      <<"Vec", <<>>>>,
      <<"Json", JArr(<<JStr(<<97>>), JU64(1)>>)>> }

CmpBytes == {0, 1, 255}

\* ------------------------------------------------------------------------
\* The Claims calls  (SpecClaims)
\* ------------------------------------------------------------------------

InitCommon ==
    /\ raw = New /\ hist = <<>> /\ ret = None
    /\ phase = "build" /\ token = <<>> /\ encKey = <<>> /\ tamper = None
    /\ input = <<>> /\ decKey = <<>> /\ result = None
    /\ ca = <<>> /\ cb = <<>> /\ cpc = "idle" /\ ci = 0 /\ cr = 0
    /\ cseen = <<>> /\ cret = None

CallInsert ==
    \E k \in {KeyAud, KeySub}, v \in ClaimValues :
        /\ Len(hist) < MaxOps
        /\ raw' = InsertUnsafe(raw, k, v)
        /\ ret' = None
        /\ hist' = Append(hist, <<"insert_unsafe", k, ToJson(v)>>)
        /\ UNCHANGED <<tokenVars, cmpVars>>

CallRemove ==
    \E k \in {KeyAud, KeySub} :
        /\ Len(hist) < MaxOps
        /\ raw' = Remove(raw, k)
        /\ ret' = Get(raw, k)
        /\ hist' = Append(hist, <<"remove", k, 0>>)
        /\ UNCHANGED <<tokenVars, cmpVars>>

CallGet ==
    \E k \in {KeyAud, KeySub} :
        /\ Len(hist) < MaxOps
        /\ ret' = Get(raw, k)
        /\ hist' = Append(hist, <<"get", k, 0>>)
        /\ UNCHANGED <<raw, tokenVars, cmpVars>>

CallAud ==
    /\ Len(hist) < MaxOps
    /\ ret' = Aud(raw)
    /\ hist' = Append(hist, <<"aud", KeyAud, 0>>)
    /\ UNCHANGED <<raw, tokenVars, cmpVars>>

NextClaims == CallInsert \/ CallRemove \/ CallGet \/ CallAud

SpecClaims == InitCommon /\ [][NextClaims]_vars

\* ------------------------------------------------------------------------
\* safe_cmp, one loop iteration at a time  (SpecCmp)
\* ------------------------------------------------------------------------

InitCmp ==
    /\ raw = New /\ hist = <<>> /\ ret = None
    /\ phase = "build" /\ token = <<>> /\ encKey = <<>> /\ tamper = None
    /\ input = <<>> /\ decKey = <<>> /\ result = None
    /\ ca \in SeqsUpTo(CmpBytes, MaxCmpLen)
    /\ cb \in SeqsUpTo(CmpBytes, MaxCmpLen)
    /\ cpc = "len" /\ ci = 0 /\ cr = 0 /\ cseen = <<>> /\ cret = None

\* a loop that leaves at the first mismatch
LoopUntilMismatch(i, r, a) == i < Len(a) /\ r = 0

\* `for i in (0..a.len())`: whether the loop runs its body for index i
LoopRuns(i, r, a) == i < Len(a)

\* line 36: if a.len() != b.len() { return false; }
CmpLen ==
    /\ cpc = "len"
    /\ IF Len(ca) # Len(cb)
       THEN cpc' = "done" /\ cret' = Some(FALSE)
       ELSE cpc' = "loop" /\ cret' = cret
    /\ UNCHANGED <<ca, cb, ci, cr, cseen, claimVars, tokenVars>>

\* line 39: r |= a[i] ^ b[i];
CmpBody ==
    /\ cpc = "loop"
    /\ LoopRuns(ci, cr, ca)
    /\ cr' = Or8(cr, Xor8(ca[ci + 1], cb[ci + 1]))
    /\ cseen' = Append(cseen, ci)
    /\ ci' = ci + 1
    /\ UNCHANGED <<ca, cb, cpc, cret, claimVars, tokenVars>>

\* line 41: r == 0
CmpReturn ==
    /\ cpc = "loop"
    /\ ~LoopRuns(ci, cr, ca)
    /\ cpc' = "done"
    /\ cret' = Some(cr = 0)
    /\ UNCHANGED <<ca, cb, ci, cr, cseen, claimVars, tokenVars>>

NextCmp == CmpLen \/ CmpBody \/ CmpReturn

SpecCmp == InitCmp /\ [][NextCmp]_vars

\* ------------------------------------------------------------------------
\* Issuing and verifying tokens  (Spec)
\* ------------------------------------------------------------------------

\* c with bit `bit` flipped
FlipBit(c, bit) ==
    IF Bit(c, bit) = 1 THEN c - Pow2(bit) ELSE c + Pow2(bit)

RECURSIVE Join(_, _)
\* the segments segs[i..] joined by '.'
Join(segs, i) ==
    IF i > Len(segs) THEN <<>>
    ELSE IF i = Len(segs) THEN segs[i]
    ELSE segs[i] \o <<Dot>> \o Join(segs, i + 1)

\* Texts a hand-made payload segment is the base64 of:
\*   {"a":1}   [1]   {"a":1   (empty)   {"a":"<e-acute>"}   and the byte 0xFF
PayloadBytes ==
    { <<123, 34, 97, 34, 58, 49, 125>>,
      <<91, 49, 93>>,
      <<123, 34, 97, 34, 58, 49>>,
      <<>>,
      <<123, 34, 97, 34, 58, 34, 195, 169, 34, 125>>,
      <<255>> }

\* hand-made payload segments: the above, plus "%" (no base64 digit) and
\* "A" (a lone digit: no whole byte)
ForgedPayloads == {ToBase64(b) : b \in PayloadBytes} \cup {<<37>>, <<65>>}

ForgedHeaders == {HEADER, <<>>}

\* the signature segment of the crate's INVALID_TOKEN: 43 times 'A'
InvalidSig == [i \in 1..43 |-> 65]

\* hand-made signature segments for header h and payload p: the MAC under
\* a key, the same with '=' padding, and texts that are no MAC
ForgedSigs(h, p) ==
    LET macs == {ToBase64(HmacSha256(k, h \o <<Dot>> \o p)) : k \in Keys}
    IN  macs \cup {Append(m, 61) : m \in macs}
             \cup {InvalidSig, <<33>>, <<65>>, <<>>}

ExtraSegments == SeqsUpTo({<<>>, <<65>>}, MaxExtra)

\* the claim sets an issuer has built before it encodes:
\*   {}   {"sub":"a"}   {"exp":5} from 5i64   {"exp":5,"sub":"a"} from 5u64
\*   {"exp":-1} from -1i64
IssuedClaims ==
    { New,
      InsertUnsafe(New, KeySub, StrA),
      InsertUnsafe(New, KeyExp, <<"i64", 5>>),
      InsertUnsafe(InsertUnsafe(New, KeySub, StrA), KeyExp, <<"u64", 5>>),
      InsertUnsafe(New, KeyExp, <<"i64", -1>>) }

Init ==
    /\ raw \in IssuedClaims
    /\ hist = <<>> /\ ret = None
    /\ phase = "build" /\ token = <<>> /\ encKey = <<>> /\ tamper = None
    /\ input = <<>> /\ decKey = <<>> /\ result = None
    /\ ca = <<>> /\ cb = <<>> /\ cpc = "idle" /\ ci = 0 /\ cr = 0
    /\ cseen = <<>> /\ cret = None

\* hs256::encode(&claims, key); the token is what the verifier will receive
Encode ==
    \E k \in Keys :
        /\ phase = "build"
        /\ token' = hs256_encode(raw, k)
        /\ encKey' = k
        /\ input' = token'
        /\ phase' = "ready"
        /\ UNCHANGED <<claimVars, tamper, decKey, result, cmpVars>>

\* one bit of one character of the token flips on the way (the text stays
\* ASCII: bit 7 is left alone)
Tamper ==
    \E pos \in 1..Len(token), bit \in 0..6 :
        /\ phase = "ready"
        /\ token # <<>>
        /\ tamper = None
        /\ input' = [token EXCEPT ![pos] = FlipBit(token[pos], bit)]
        /\ tamper' = Some(<<pos, bit>>)
        /\ UNCHANGED <<claimVars, phase, token, encKey, decKey, result,
                       cmpVars>>

\* a verifier that issued nothing is handed a text made by hand: the first
\* n of header, payload and signature, or all three and more segments
Forge ==
    \E h \in ForgedHeaders, p \in ForgedPayloads :
        \E s \in ForgedSigs(h, p), n \in 1..3, extra \in ExtraSegments :
            /\ phase = "build"
            /\ raw = New
            /\ n < 3 => extra = <<>>
            /\ input' = Join(SubSeq(<<h, p, s>>, 1, n) \o extra, 1)
            /\ phase' = "ready"
            /\ UNCHANGED <<claimVars, token, encKey, tamper, decKey, result,
                           cmpVars>>

\* hs256::decode(input, key)
Decode ==
    \E k \in Keys, mode \in SplitnModes :
        /\ phase = "ready"
        /\ result' = hs256_decode(input, k, mode)
        /\ decKey' = k
        /\ phase' = "decoded"
        /\ UNCHANGED <<claimVars, token, encKey, tamper, input, cmpVars>>

Next == Encode \/ Tamper \/ Forge \/ Decode

Spec == Init /\ [][Next]_vars

\* ------------------------------------------------------------------------
\* Properties
\* ------------------------------------------------------------------------

Decoded == phase = "decoded"

\* the input is the token as hs256::encode returned it
Untouched == token # <<>> /\ tamper = None

DotCount(s) == Cardinality({i \in 1..Len(s) : s[i] = Dot})

\* every piece of s between dots
Segments(s) == SplitFrom(s, Dot, 1, Len(s))

\* the MAC of the first two segments of the input under the decoding key
InputMac(seg) == HmacSha256(decKey, seg[1] \o <<Dot>> \o seg[2])

\* the signature segment decodes to the MAC
SigVerifies(seg) ==
    FromBase64(seg[3]).ok /\ FromBase64(seg[3]).v = InputMac(seg)

\* C1: decode(encode(C, K), K) succeeds and returns a claim set equal to C.
C1_RoundTrip ==
    (Decoded /\ Untouched /\ decKey = encKey) => result = OkClaims(raw)

\* The round trip does hold for claim sets without a non-negative signed
\* integer (here: every issued set but {"exp": 5i64}).
RoundTripOutsideI64 ==
    (/\ Decoded /\ Untouched /\ decKey = encKey
     /\ \A k \in DOMAIN raw : ~(raw[k][1] = "I64" /\ raw[k][2] >= 0))
        => result = OkClaims(raw)

\* C2: a token with one bit of one character of a segment flipped is never
\* decoded successfully with the key it was issued under.
C2_TamperRejected ==
    (/\ Decoded /\ tamper # None /\ decKey = encKey
     /\ token[tamper[2][1]] # Dot)
        => result \in {Malformed, InvalidSignature}

\* The flip is rejected whenever it is not one of the two unused low bits
\* of the last signature character.
TamperOutsideSlackRejected ==
    (/\ Decoded /\ tamper # None /\ decKey = encKey
     /\ ~(tamper[2][1] = Len(token) /\ tamper[2][2] \in {0, 1}))
        => result \in {Malformed, InvalidSignature}

\* C3 as stated: decoding an untouched token with any other key fails with
\* InvalidSignature.
C3_WrongKeyRejected ==
    (Decoded /\ Untouched /\ decKey # encKey) => result = InvalidSignature

\* C3, amended: decoding an untouched token with a key whose HMAC key block
\* differs from the issuing key's fails with InvalidSignature.
C3_WrongKeyBlockRejected ==
    (Decoded /\ Untouched /\ KeyBlock(decKey) # KeyBlock(encKey))
        => result = InvalidSignature

C3_Witness ==
    /\ Decoded /\ Untouched /\ raw # New
    /\ KeyBlock(decKey) # KeyBlock(encKey)
    /\ result = InvalidSignature

\* C4: an input with fewer or more than two dots is Malformed, whatever its
\* segments and the key.
C4_StructuralRejection ==
    (Decoded /\ DotCount(input) # 2) => result = Malformed

\* an input with an extra segment whose first three segments verify
C4_Witness ==
    /\ Decoded /\ DotCount(input) > 2 /\ result = Malformed
    /\ SigVerifies(Segments(input))
    /\ DecodePayload(Segments(input)[2])[1] = "Ok"

\* C5: when the signature of a three-segment input does not verify, the
\* result is Malformed if the signature segment is no base64 and
\* InvalidSignature if it is, whatever the payload segment holds.
C5_SignatureGating ==
    (Decoded /\ DotCount(input) = 2 /\ ~SigVerifies(Segments(input)))
        => result = IF FromBase64(Segments(input)[3]).ok
                    THEN InvalidSignature ELSE Malformed

\* a wrong signature in valid base64 on a payload that is no base64
C5_Witness ==
    /\ Decoded /\ DotCount(input) = 2 /\ result = InvalidSignature
    /\ FromBase64(Segments(input)[3]).ok
    /\ ~SigVerifies(Segments(input))
    /\ ~FromBase64(Segments(input)[2]).ok

\* the payload segment is the base64 of UTF-8 text that is a JSON object
PayloadIsObject(p) ==
    /\ FromBase64(p).ok
    /\ IsUtf8(FromBase64(p).v)
    /\ JsonFromStr(FromBase64(p).v).ok
    /\ IsObject(JsonFromStr(FromBase64(p).v).v)

\* C9: when the signature of a three-segment input verifies, the result is
\* Ok with the payload's object if the payload segment is the base64 of
\* UTF-8 text that is a JSON object, and Malformed otherwise.
C9_AfterAcceptance ==
    (Decoded /\ DotCount(input) = 2 /\ SigVerifies(Segments(input)))
        => result = IF PayloadIsObject(Segments(input)[2])
                    THEN OkClaims(JsonFromStr(
                             FromBase64(Segments(input)[2]).v).v[2])
                    ELSE Malformed

\* a verified signature on a payload that is JSON but no object
C9_Witness ==
    /\ Decoded /\ DotCount(input) = 2 /\ SigVerifies(Segments(input))
    /\ FromBase64(Segments(input)[2]).ok
    /\ JsonFromStr(FromBase64(Segments(input)[2]).v).ok
    /\ ~PayloadIsObject(Segments(input)[2])
    /\ result = Malformed

\* ---- Claims ----

LastCall == hist[Len(hist)]

AudCalled == hist # <<>> /\ LastCall[1] = "aud"

AudIsStrings ==
    /\ KeyAud \in DOMAIN raw /\ IsArray(raw[KeyAud])
    /\ \A i \in 1..Len(raw[KeyAud][2]) : IsString(raw[KeyAud][2][i])

\* C6: over an array of strings aud() returns those strings in order; over
\* an array with a member that is no string, or without the claim, absent.
C6_AudAllOrNothing ==
    AudCalled =>
        /\ KeyAud \notin DOMAIN raw => ret = None
        /\ AudIsStrings =>
              /\ ret[1] = "Some"
              /\ Len(ret[2]) = Len(raw[KeyAud][2])
              /\ \A i \in 1..Len(ret[2]) : JStr(ret[2][i]) = raw[KeyAud][2][i]
        /\ (KeyAud \in DOMAIN raw /\ IsArray(raw[KeyAud]) /\ ~AudIsStrings)
              => ret = None

\* aud() on an array that holds a string and something else
C6_Witness ==
    /\ AudCalled /\ KeyAud \in DOMAIN raw /\ IsArray(raw[KeyAud])
    /\ \E i \in 1..Len(raw[KeyAud][2]) : IsString(raw[KeyAud][2][i])
    /\ \E i \in 1..Len(raw[KeyAud][2]) : ~IsString(raw[KeyAud][2][i])
    /\ ret = None

AudIsOneString == KeyAud \in DOMAIN raw /\ IsString(raw[KeyAud])

\* C7 as stated: over a single string aud() returns that audience (alone or
\* as a list of one).
C7_AudStringExposed ==
    (AudCalled /\ AudIsOneString)
        => ret \in {Some(raw[KeyAud][2]), Some(<<raw[KeyAud][2]>>)}

\* C7, amended: aud() exposes the list shape only: over a list of strings it
\* returns the list, over a single string absent.
C7_AudListOnly ==
    AudCalled =>
        /\ AudIsOneString => ret = None
        /\ AudIsStrings
              => ret = Some([i \in 1..Len(raw[KeyAud][2]) |->
                                raw[KeyAud][2][i][2]])

C7_Witness == AudCalled /\ AudIsOneString /\ ret = None

\* the value the calls h leave under key k: that of the last insert_unsafe
\* of k, unless a remove of k came after it
LiveValue(h, k) ==
    LET writes == {i \in 1..Len(h) :
                      h[i][2] = k /\ h[i][1] \in {"insert_unsafe", "remove"}}
        last == CHOOSE i \in writes : \A j \in writes : j <= i
    IN  IF writes = {} THEN None
        ELSE IF h[last][1] = "insert_unsafe" THEN Some(h[last][3])
        ELSE None

Earlier == SubSeq(hist, 1, Len(hist) - 1)

\* C8: after any calls from new(), get(k) is the value of the last
\* insert_unsafe(k, v) no remove(k) followed, there is one entry for each
\* such key, and get and remove return what was under the key before.
C8_MapSemantics ==
    /\ \A k \in {KeyAud, KeySub, KeyExp} : Get(raw, k) = LiveValue(hist, k)
    /\ Cardinality(DOMAIN raw)
           = Cardinality({k \in {KeyAud, KeySub, KeyExp} : LiveValue(hist, k) # None})
    /\ (hist # <<>> /\ LastCall[1] \in {"get", "remove"})
           => ret = LiveValue(Earlier, LastCall[2])

\* a key written twice, then removed: remove returns the second value
C8_Witness ==
    /\ Len(hist) = 3
    /\ hist[1][1] = "insert_unsafe" /\ hist[2][1] = "insert_unsafe"
    /\ hist[1][2] = hist[2][2] /\ hist[1][3] # hist[2][3]
    /\ hist[3] = <<"remove", hist[1][2], 0>>
    /\ ret = Some(hist[2][3])
    /\ hist[1][2] \notin DOMAIN raw

\* ---- safe_cmp ----

\* C10: safe_cmp returns whether the arguments are the same bytes; with
\* different lengths its loop body never runs; with equal lengths it runs
\* for every index in order, r being the OR of the XORs of the byte pairs.
C10_SafeCmp ==
    cpc = "done" =>
        /\ cret = Some(ca = cb)
        /\ cret = Some(safe_cmp(ca, cb))
        /\ Len(ca) # Len(cb) => cseen = <<>>
        /\ Len(ca) = Len(cb) =>
              /\ cseen = [i \in 1..Len(ca) |-> i - 1]
              /\ cr = CmpFold(ca, cb, Len(ca))

\* arguments of equal length that differ in their first byte
C10_Witness ==
    /\ cpc = "done" /\ Len(ca) = Len(cb) /\ Len(ca) >= 2
    /\ ca[1] # cb[1]
    /\ Len(cseen) = Len(ca)
    /\ cret = Some(FALSE)

=============================================================================
